---- MODULE Spec2Model ----
(***************************************************************************)
(* A model of bot.py: the reference registry (PathRegistry), the content   *)
(* accessor (list_dir, read_text_file, scan_all_txt), the request handlers *)
(* and the background watcher (watch_info_changes).                        *)
(*                                                                         *)
(* A relative path is the sequence of the segments of its posix string:    *)
(* "" is << >>, "d/b.txt" is <<"d", "b.txt">>.  A token is the sequence of *)
(* the decimal digits of str(counter).  A chat is a private chat, so the   *)
(* user id of a request equals its chat id.  asyncio runs one coroutine at *)
(* a time, so an action is the code between two awaits.                    *)
(***************************************************************************)
EXTENDS Integers, Sequences, FiniteSets, TLC

\* The clients and the external process that edits the tree make at most
\* this many moves together: requests sent and changes of the tree.
MaxEvents == 3
\* The longest client-made path handed to the accessor, in segments.
MaxSegs == 3
\* The longest text handed to the renderer line by line, in lines.
MaxLines == 3

Chats == {1, 2}

(***************************************************************************)
(* Strings.  TLC cannot look inside a string, so the names the model uses  *)
(* are listed with their code points.                                      *)
(***************************************************************************)
Chars(name) ==
  CASE name = "a.txt" -> <<97, 46, 116, 120, 116>>
    [] name = "b.txt" -> <<98, 46, 116, 120, 116>>
    [] name = "n.md"  -> <<110, 46, 109, 100>>
    [] name = "d"     -> <<100>>
    [] name = "lnk"   -> <<108, 110, 107>>
    [] name = ".."    -> <<46, 46>>
    [] name = "etc"   -> <<101, 116, 99>>
    [] name = "app"   -> <<97, 112, 112>>
    [] name = "info"  -> <<105, 110, 102, 111>>

RECURSIVE JoinSlash(_)
\* Path.as_posix(): the segments joined by "/" (code point 47).
JoinSlash(path) ==
  IF path = << >> THEN << >>
  ELSE IF Len(path) = 1 THEN Chars(path[1])
  ELSE Chars(path[1]) \o <<47>> \o JoinSlash(Tail(path))

RECURSIVE StrLess(_, _)
\* Python's str "<": code point by code point, a proper prefix first.
StrLess(s, t) ==
  IF t = << >> THEN FALSE
  ELSE IF s = << >> THEN TRUE
  ELSE IF s[1] # t[1] THEN s[1] < t[1]
  ELSE StrLess(Tail(s), Tail(t))

RECURSIVE SortedStrs(_)
\* sorted(S) for a set of strings (code point sequences): the least first.
SortedStrs(S) ==
  IF S = {} THEN << >>
  ELSE LET m == CHOOSE x \in S : \A y \in S \ {x} : StrLess(x, y)
       IN <<m>> \o SortedStrs(S \ {m})

\* sorted(paths): the paths in the order of their posix strings.
SortedPaths(S) ==
  LET strs == SortedStrs({JoinSlash(p) : p \in S})
  IN [i \in 1..Len(strs) |-> CHOOSE p \in S : JoinSlash(p) = strs[i]]

\* PurePath.suffix: from the last dot of the name, unless the name starts with it.
Suffix(name) ==
  LET cs == Chars(name)
      dots == {i \in 2..Len(cs) : cs[i] = 46}
  IN IF dots = {} \/ cs[Len(cs)] = 46 THEN << >>
     ELSE LET i == CHOOSE j \in dots : \A k \in dots : k <= j
          IN SubSeq(cs, i, Len(cs))

DotTxt == <<46, 116, 120, 116>>

RECURSIVE Str(_)
\* str(n) for n >= 0: the decimal digits.
Str(n) == IF n < 10 THEN <<n>> ELSE Str(n \div 10) \o <<n % 10>>

SeqToSet(s) == {s[i] : i \in 1..Len(s)}

Perms(S) == {p \in [1..Cardinality(S) -> S] : \A i, j \in 1..Cardinality(S) : p[i] = p[j] => i = j}

(***************************************************************************)
(* The content tree.  INFO_ROOT is /app/info; the directories are fixed,   *)
(* the documents come and go.                                              *)
(***************************************************************************)
INFO_ROOT == <<"app", "info">>

RootDoc == <<"a.txt">>
SubDoc == <<"d", "b.txt">>
Note == <<"d", "n.md">>
Docs == {RootDoc, SubDoc}
Dirs == {<< >>, <<"d">>}
LinkTarget == <<"etc">>

VARIABLES
  tree,                  \* the regular files under INFO_ROOT, as relative paths
  links,                 \* the relative paths that are symbolic links to LinkTarget
  id_to_path, path_to_id, counter,   \* path_registry
  subscribers,
  known_files,
  w_pc,                  \* the watcher: "start", "send", "sleep" or "dead"
  current,               \* the watcher's local current
  fanout,                \* the notifications of this tick, one entry per document
  tick_failed,           \* the tick ended in the handler of line 747
  stable,                \* the documents present ever since the watcher started
  user_progress,
  user_content_messages,
  inflight,              \* the open requests that wait at an await, oldest first
  mid,                   \* the message id the transport gave out last
  events,                \* how many requests and tree changes there have been
  reply,                 \* what the first step of the latest open request answered
  seen,                  \* the tokens the buttons sent to each chat carried
  probe,                 \* the latest direct call of an accessor and its result
  screen,                \* the content messages each chat displays, by document
  shown                  \* what the latest search or statistics request computed

vars == <<tree, links, id_to_path, path_to_id, counter, subscribers,
          known_files, w_pc, current, fanout, tick_failed, stable,
          user_progress, user_content_messages, inflight, mid, events, reply, seen,
          probe, shown, screen>>

registry == <<id_to_path, path_to_id, counter>>
watcher == <<known_files, w_pc, current, fanout, tick_failed>>
filesystem == <<tree, links>>
requests == <<user_content_messages, inflight, mid>>

(***************************************************************************)
(* PathRegistry                                                            *)
(***************************************************************************)
Reg == [i2p |-> id_to_path, p2i |-> path_to_id, ctr |-> counter]

\* Faulty variants of get_id, against which the registry properties are
\* tried: without the lookup of lines 30-31, without the increment of line
\* 32, and with the token made before the increment.
GetIdAlwaysNew(reg, kind, rel_path) ==
  LET key == <<kind, rel_path>>
      assigned_id == Str(reg.ctr + 1)
  IN [reg |-> [i2p |-> (assigned_id :> key) @@ reg.i2p,
               p2i |-> (key :> assigned_id) @@ reg.p2i,
               ctr |-> reg.ctr + 1],
      id |-> assigned_id]

GetIdSameCounter(reg, kind, rel_path) ==
  LET key == <<kind, rel_path>>
      assigned_id == Str(reg.ctr)
  IN IF key \in DOMAIN reg.p2i
     THEN [reg |-> reg, id |-> reg.p2i[key]]
     ELSE [reg |-> [i2p |-> (assigned_id :> key) @@ reg.i2p,
                    p2i |-> (key :> assigned_id) @@ reg.p2i,
                    ctr |-> reg.ctr],
           id |-> assigned_id]

GetIdOffByOne(reg, kind, rel_path) ==
  LET key == <<kind, rel_path>>
      assigned_id == Str(reg.ctr)
  IN IF key \in DOMAIN reg.p2i
     THEN [reg |-> reg, id |-> reg.p2i[key]]
     ELSE [reg |-> [i2p |-> (assigned_id :> key) @@ reg.i2p,
                    p2i |-> (key :> assigned_id) @@ reg.p2i,
                    ctr |-> reg.ctr + 1],
           id |-> assigned_id]

\* get_id: the registry afterwards and the token returned.
GetId(reg, kind, rel_path) ==
  LET key == <<kind, rel_path>>
  IN IF key \in DOMAIN reg.p2i
     THEN [reg |-> reg, id |-> reg.p2i[key]]
     ELSE LET assigned_id == Str(reg.ctr + 1)
          IN [reg |-> [i2p |-> (assigned_id :> key) @@ reg.i2p,
                       p2i |-> (key :> assigned_id) @@ reg.p2i,
                       ctr |-> reg.ctr + 1],
              id |-> assigned_id]

\* A faulty variant of resolve: dict.get with the root as its default.
ResolveOrRoot(reg, assigned_id) ==
  IF assigned_id \in DOMAIN reg.i2p
  THEN [err |-> "none", ref |-> reg.i2p[assigned_id]]
  ELSE [err |-> "none", ref |-> <<"dir", << >> >>]

\* resolve: the reference, or KeyError.
Resolve(reg, assigned_id) ==
  IF assigned_id \in DOMAIN reg.i2p
  THEN [err |-> "none", ref |-> reg.i2p[assigned_id]]
  ELSE [err |-> "KeyError", ref |-> << >>]

SetReg(reg) ==
  /\ id_to_path' = reg.i2p
  /\ path_to_id' = reg.p2i
  /\ counter' = reg.ctr

(***************************************************************************)
(* The accessor                                                            *)
(***************************************************************************)
RECURSIVE ResolvePath(_, _, _)
\* Path.resolve(): ".." steps up (the root is its own parent) and a
\* symbolic link is replaced by its target.
ResolvePath(done, rest, lks) ==
  IF rest = << >> THEN done
  ELSE LET seg == rest[1]
           step == IF seg = ".."
                   THEN (IF done = << >> THEN << >> ELSE SubSeq(done, 1, Len(done) - 1))
                   ELSE Append(done, seg)
           here == IF \E l \in lks : step = INFO_ROOT \o l THEN LinkTarget ELSE step
       IN ResolvePath(here, Tail(rest), lks)

\* Path.parents: the proper ancestors.
Parents(p) == {SubSeq(p, 1, n) : n \in 0..(Len(p) - 1)}

\* A faulty variant of the test: without its second half.
EscapesOrRoot(base) == INFO_ROOT \notin Parents(base)

\* The test of lines 81 and 97.
Escapes(base) == INFO_ROOT \notin Parents(base) /\ base # INFO_ROOT

\* Path(rel).parent.as_posix(), "." for a path of one segment or none.
PosixParent(rel) ==
  IF Len(rel) <= 1 THEN <<".">> ELSE SubSeq(rel, 1, Len(rel) - 1)

\* The parent_dir of lines 447 and 728.
ParentDir(rel) == IF PosixParent(rel) # <<".">> THEN PosixParent(rel) ELSE << >>

\* The files the tree can hold whose name matches "*.txt".
TxtFiles == {p \in Docs \cup {Note} : Suffix(p[Len(p)]) = DotTxt}

\* scan_all_txt: rglob("*.txt") relative to the root.
ScanAllTxt(files) == files \cap TxtFiles

\* The names in a directory listing, sorted by name.
SortedByName(paths) ==
  LET strs == SortedStrs({Chars(p[Len(p)]) : p \in paths})
  IN [i \in 1..Len(strs) |-> CHOOSE p \in paths : Chars(p[Len(p)]) = strs[i]]

\* list_dir: the children of rel_dir as relative paths, directories and
\* .txt files apart, or the error raised; opened tells whether iterdir()
\* of line 85 was reached.
list_dir(rel_dir, files, lks) ==
  LET base == ResolvePath(<< >>, INFO_ROOT \o rel_dir, lks)
      here(p) == p # << >> /\ INFO_ROOT \o SubSeq(p, 1, Len(p) - 1) = base
  IN IF Escapes(base)
     THEN [err |-> "PermissionError", opened |-> FALSE, dirs |-> << >>, files |-> << >>]
     ELSE IF base \notin {INFO_ROOT \o d : d \in Dirs}
     THEN [err |-> "OSError", opened |-> TRUE, dirs |-> << >>, files |-> << >>]
     ELSE [err |-> "none", opened |-> TRUE,
           dirs |-> SortedByName({rel_dir \o <<d[Len(d)]>> :
                                  d \in {x \in (Dirs \cup lks) \ {<< >>} : here(x)}}),
           files |-> SortedByName({rel_dir \o <<f[Len(f)]>> :
                                   f \in {x \in files \cap TxtFiles : here(x)}})]

(***************************************************************************)
(* render_txt_to_html.  A text is the sequence of its code points.         *)
(***************************************************************************)
\* The characters str.strip() and the regex class \s remove.
Whitespace == {9, 10, 11, 12, 13, 28, 29, 30, 31, 32, 133, 160}

RECURSIVE Join(_, _)
\* sep.join(parts)
Join(parts, sep) ==
  IF parts = << >> THEN << >>
  ELSE IF Len(parts) = 1 THEN parts[1]
  ELSE parts[1] \o sep \o Join(Tail(parts), sep)

RECURSIVE SplitLines(_)
\* text.split("\n")
SplitLines(text) ==
  LET nl == {i \in 1..Len(text) : text[i] = 10}
  IN IF nl = {} THEN <<text>>
     ELSE LET i == CHOOSE j \in nl : \A k \in nl : j <= k
          IN <<SubSeq(text, 1, i - 1)>> \o SplitLines(SubSeq(text, i + 1, Len(text)))

\* s.rstrip(chars)
RStrip(s, chars) ==
  LET keep == {i \in 1..Len(s) : s[i] \notin chars}
  IN IF keep = {} THEN << >>
     ELSE SubSeq(s, 1, CHOOSE j \in keep : \A k \in keep : k <= j)

\* s.lstrip(chars)
LStrip(s, chars) ==
  LET keep == {i \in 1..Len(s) : s[i] \notin chars}
  IN IF keep = {} THEN << >>
     ELSE SubSeq(s, CHOOSE j \in keep : \A k \in keep : j <= k, Len(s))

\* s.strip()
Strip(s) == LStrip(RStrip(s, Whitespace), Whitespace)

StartsWith(s, prefix) == Len(s) >= Len(prefix) /\ SubSeq(s, 1, Len(prefix)) = prefix

RECURSIVE escape_html(_)
\* escape_html: & first, then < and >, so each becomes its entity once.
\* The text is halved rather than walked, to keep the evaluation shallow
\* on texts of thousands of characters.
escape_html(text) ==
  IF text = << >> THEN << >>
  ELSE IF Len(text) = 1
  THEN (CASE text[1] = 38 -> <<38, 97, 109, 112, 59>>
          [] text[1] = 60 -> <<38, 108, 116, 59>>
          [] text[1] = 62 -> <<38, 103, 116, 59>>
          [] OTHER -> text)
  ELSE LET half == Len(text) \div 2
       IN escape_html(SubSeq(text, 1, half)) \o escape_html(SubSeq(text, half + 1, Len(text)))

Fence == <<96, 96, 96>>
PreOpen == <<60, 112, 114, 101, 62>>
PreClose == <<60, 47, 112, 114, 101, 62>>
BoldOpen == <<32, 60, 98, 62>>
BoldClose == <<60, 47, 98, 62>>
\* "\n... (код обрезан)"
CodeCutMark == <<10, 46, 46, 46, 32, 40, 1082, 1086, 1076, 32, 1086, 1073, 1088, 1077, 1079, 1072, 1085, 41>>

\* The inner cap of line 141 and the composed-segment cap of line 178.
CodeCap == 2000
ChunkCap == 3000

\* The match of ^(#+)\s*(.+)$ on a stripped line: whether it matches, the
\* number of hashes taken and the title.  The title needs one character,
\* so a line of hashes alone gives its last hash up to it.
Heading(stripped) ==
  LET n == Len(stripped)
      nohash == {i \in 1..n : stripped[i] # 35}
      h == IF nohash = {} THEN n ELSE (CHOOSE j \in nohash : \A k \in nohash : j <= k) - 1
  IN IF h = 0 THEN [match |-> FALSE, level |-> 0, title |-> << >>]
     ELSE IF h < n
     THEN [match |-> TRUE, level |-> h,
           title |-> LStrip(SubSeq(stripped, h + 1, n), Whitespace)]
     ELSE IF h >= 2
     THEN [match |-> TRUE, level |-> h - 1, title |-> <<35>>]
     ELSE [match |-> FALSE, level |-> 0, title |-> << >>]

\* The match of ^[-*]\s+ on a stripped line.
IsItem(stripped) ==
  /\ Len(stripped) >= 2
  /\ stripped[1] \in {45, 42}
  /\ stripped[2] \in Whitespace

\* Lines 151-170: the fragment a line outside a code block adds to buffer.
Fragment(line) ==
  LET stripped == Strip(line)
      m == Heading(stripped)
  IN IF stripped = << >> THEN << >>
     ELSE IF m.match
     THEN <<IF m.level = 1 THEN 128994 ELSE IF m.level = 2 THEN 128993 ELSE 128308>>
          \o BoldOpen \o escape_html(m.title) \o BoldClose
     ELSE IF IsItem(stripped)
     THEN <<8226, 32>> \o escape_html(LStrip(Tail(stripped), Whitespace))
     ELSE escape_html(line)

\* Lines 139-143: the segment of a closed code block.
CodeBlock(code_buffer) ==
  LET code_text == Join(code_buffer, <<10>>)
      cut == IF Len(code_text) > CodeCap
             THEN SubSeq(code_text, 1, CodeCap) \o CodeCutMark
             ELSE code_text
  IN PreOpen \o escape_html(cut) \o PreClose

\* A faulty variant of flush_buffer: the buffer is cleared and not kept.
FlushBufferNever(html_parts, buffer) == html_parts

\* flush_buffer: html_parts after it.
FlushBuffer(html_parts, buffer) ==
  IF buffer = << >> THEN html_parts ELSE Append(html_parts, Join(buffer, <<10>>))

RECURSIVE ScanLines(_, _, _, _, _, _)
\* The loop of lines 128-170 from line i on, then the flush of line 172.
ScanLines(lines, i, html_parts, buffer, in_code, code_buffer) ==
  IF i > Len(lines) THEN FlushBuffer(html_parts, buffer)
  ELSE LET line == RStrip(lines[i], {13})
       IN IF StartsWith(Strip(line), Fence)
          THEN IF ~in_code
               THEN ScanLines(lines, i + 1, html_parts, buffer, TRUE, << >>)
               ELSE ScanLines(lines, i + 1,
                              Append(FlushBuffer(html_parts, buffer), CodeBlock(code_buffer)),
                              << >>, FALSE, << >>)
          ELSE IF in_code
          THEN ScanLines(lines, i + 1, html_parts, buffer, TRUE, Append(code_buffer, line))
          ELSE ScanLines(lines, i + 1, html_parts, Append(buffer, Fragment(line)),
                         FALSE, code_buffer)

RECURSIVE PackGlued(_, _, _, _)
\* A faulty variant of the loop: the parts are joined with nothing between
\* them.
PackGlued(html_parts, i, chunks, cur) ==
  IF i > Len(html_parts)
  THEN (IF cur # << >> THEN Append(chunks, cur) ELSE chunks)
  ELSE LET part == html_parts[i]
       IN IF Len(cur) + Len(part) + 1 > ChunkCap
          THEN PackGlued(html_parts, i + 1,
                         IF cur # << >> THEN Append(chunks, cur) ELSE chunks, part)
          ELSE PackGlued(html_parts, i + 1, chunks, cur \o part)

RECURSIVE Pack(_, _, _, _)
\* The loop of lines 177-185 from part i on.
Pack(html_parts, i, chunks, cur) ==
  IF i > Len(html_parts)
  THEN (IF cur # << >> THEN Append(chunks, cur) ELSE chunks)
  ELSE LET part == html_parts[i]
       IN IF Len(cur) + Len(part) + 1 > ChunkCap
          THEN Pack(html_parts, i + 1, IF cur # << >> THEN Append(chunks, cur) ELSE chunks, part)
          ELSE Pack(html_parts, i + 1, chunks,
                    IF cur # << >> THEN cur \o <<10>> \o part ELSE part)

render_txt_to_html(text) ==
  Pack(ScanLines(SplitLines(text), 1, << >>, << >>, FALSE, << >>), 1, << >>, << >>)

\* The text of each file of the tree: "# T" and newline and "x" in a.txt,
\* nothing in d/b.txt, "n" in d/n.md.
FileText(rel) ==
  IF rel = RootDoc THEN <<35, 32, 84, 10, 120>>
  ELSE IF rel = SubDoc THEN << >>
  ELSE <<110>>

\* read_text_file: the text, or the error raised; opened tells whether
\* read_text() of line 100 was reached.
read_text_file(rel_path, files, lks) ==
  LET file_path == ResolvePath(<< >>, INFO_ROOT \o rel_path, lks)
  IN IF Escapes(file_path)
     THEN [err |-> "PermissionError", opened |-> FALSE, text |-> << >>]
     ELSE IF file_path \notin {INFO_ROOT \o f : f \in files}
     THEN [err |-> "OSError", opened |-> TRUE, text |-> << >>]
     ELSE [err |-> "none", opened |-> TRUE,
           text |-> FileText(SubSeq(file_path, Len(INFO_ROOT) + 1, Len(file_path)))]

(***************************************************************************)
(* The initial state: the module-level objects of lines 42-50, the tree as *)
(* the operator left it, the watcher task created and not yet run.         *)
(***************************************************************************)
NoProbe == [op |-> "none", path |-> << >>, res |-> [err |-> "none"]]

NoShown == [op |-> "none"]

\* What the chats display of the documents: for each chat the content
\* messages sent to it and not deleted, each with the document it is a part
\* of, and the document the chat opened last.  known is FALSE once a send
\* has raised or the delete of a displayed message has raised.
NoScreen ==
  [known |-> TRUE, msgs |-> [c \in Chats |-> {}], latest |-> [c \in Chats |-> << >>]]

Unknown == [known |-> FALSE]

\* The chat opens a document.
Opens(scr, c, rel) ==
  IF scr.known THEN [scr EXCEPT !.latest[c] = rel] ELSE scr

\* A message of a document is sent to the chat.
Shows(scr, c, id, rel) ==
  IF scr.known THEN [scr EXCEPT !.msgs[c] = @ \cup {<<id, rel>>}] ELSE scr

\* Whether the chat displays the message.
Displays(scr, c, id) == scr.known /\ \E m \in scr.msgs[c] : m[1] = id

\* A message of the chat is deleted.
Hides(scr, c, id) ==
  IF scr.known THEN [scr EXCEPT !.msgs[c] = {m \in @ : m[1] # id}] ELSE scr

Fresh ==
  /\ id_to_path = << >>
  /\ path_to_id = << >>
  /\ counter = 0
  /\ subscribers = {}
  /\ known_files = {}
  /\ w_pc = "start"
  /\ current = {}
  /\ fanout = << >>
  /\ tick_failed = FALSE
  /\ stable = {}
  /\ user_progress = << >>
  /\ user_content_messages = << >>
  /\ inflight = << >>
  /\ mid = 0
  /\ events = 0
  /\ reply = "none"
  /\ seen = [c \in Chats |-> {}]
  /\ probe = NoProbe
  /\ shown = NoShown
  /\ screen = NoScreen

Init ==
  /\ tree \in {{Note} \cup D : D \in SUBSET Docs}
  /\ links = {}
  /\ Fresh

(***************************************************************************)
(* The external process that edits the tree.                               *)
(***************************************************************************)
\* The documents of the tree become those of D: some are added, some
\* removed, between two steps of the program.
ChangeTree(D) ==
  /\ events < MaxEvents
  /\ D # tree \cap Docs
  /\ tree' = (tree \ Docs) \cup D
  /\ events' = events + 1
  /\ stable' = stable \cap D
  /\ UNCHANGED <<links, screen, probe, shown, registry, subscribers, watcher, user_progress,
                 requests, reply, seen>>

(***************************************************************************)
(* watch_info_changes                                                      *)
(***************************************************************************)
\* Lines 728-730 for one new document: the registry afterwards and the
\* notification to fan out.
RegisterNew(reg, rel) ==
  LET parent_dir == ParentDir(rel)
      f == GetId(reg, "file", rel)
      d == GetId(f.reg, "dir", parent_dir)
  IN [reg |-> d.reg, file_id |-> f.id, dir_id |-> d.id]

\* A faulty variant of the entry: the watcher yields before it has called
\* send_message for any chat.
EntryUntried(rel, r, chats) ==
  [rel |-> rel, file_id |-> r.file_id, dir_id |-> r.dir_id, chats |-> chats,
   tried |-> << >>]

\* The entry of one document whose fan-out goes to chats, the list of line
\* 741; tried lists the chats send_message was called for, the first of
\* them at once.
Entry(rel, r, chats) ==
  [rel |-> rel, file_id |-> r.file_id, dir_id |-> r.dir_id, chats |-> chats,
   tried |-> IF chats = << >> THEN << >> ELSE <<chats[1]>>]

RECURSIVE RegisterRest(_, _, _, _)
\* The loop of line 727 from document i on while nobody is subscribed.
RegisterRest(reg, fo, ord, i) ==
  IF i > Len(ord) THEN [reg |-> reg, fo |-> fo]
  ELSE LET r == RegisterNew(reg, ord[i])
       IN RegisterRest(r.reg, Append(fo, Entry(ord[i], r, << >>)), ord, i + 1)

\* list(subscribers): the members in the order the set iterates them.
ListOf(S) == Perms(S)

\* The watcher runs from document i of ord to its next await: the next send
\* (line 743), or line 746 and the sleep.
Advance(ord, cur, i, fo) ==
  IF i > Len(ord) \/ subscribers = {}
  THEN LET r == RegisterRest(Reg, fo, ord, i)
       IN /\ SetReg(r.reg)
          /\ fanout' = r.fo
          /\ known_files' = cur
          /\ w_pc' = "sleep"
  ELSE \E chats \in ListOf(subscribers) :
         LET r == RegisterNew(Reg, ord[i])
         IN /\ SetReg(r.reg)
            /\ fanout' = Append(fo, Entry(ord[i], r, chats))
            /\ w_pc' = "send"
            /\ UNCHANGED known_files

\* A faulty variant of line 725: the scan itself, not the difference.
NewFilesAll(cur, known) == cur

\* Line 725.
NewFiles(cur, known) == cur \ known

\* One pass of the loop body up to its first await, with known the snapshot
\* it starts from: the scan raises, or it finds nothing new, or it starts
\* the fan-out.
Tick(known) ==
  \E scan_ok \in BOOLEAN :
    IF ~scan_ok
    THEN /\ tick_failed' = TRUE
         /\ known_files' = known
         /\ w_pc' = "sleep"
         /\ fanout' = << >>
         /\ UNCHANGED <<current, registry>>
    ELSE LET cur == ScanAllTxt(tree)
             new_files == NewFiles(cur, known)
         IN /\ tick_failed' = FALSE
            /\ current' = cur
            /\ IF new_files = {}
               THEN /\ known_files' = known
                    /\ w_pc' = "sleep"
                    /\ fanout' = << >>
                    /\ UNCHANGED registry
               ELSE Advance(SortedPaths(new_files), cur, 1, << >>)

\* A faulty variant of line 721: the snapshot left as line 48 made it.
InitialSnapshotEmpty(files) == {}

\* Line 721: the snapshot the watcher starts from.
InitialSnapshot(files) == ScanAllTxt(files)

\* The task starts: line 721, then the first pass of the loop.
WatcherStart ==
  /\ w_pc = "start"
  /\ stable' = ScanAllTxt(tree)
  /\ \/ /\ w_pc' = "dead"
        /\ UNCHANGED <<known_files, current, fanout, tick_failed, registry>>
     \/ Tick(InitialSnapshot(tree))
  /\ UNCHANGED <<filesystem, screen, probe, shown, subscribers, user_progress, requests, events, reply, seen>>

\* The sleep of line 749 ends and the loop body runs again.
WatcherTick ==
  /\ w_pc = "sleep"
  /\ Tick(known_files)
  /\ UNCHANGED <<filesystem, screen, probe, shown, subscribers, stable, user_progress, requests, events,
                 reply, seen>>

\* A faulty variant of lines 741-745: the try around the loop, so that a
\* send that raises ends it.
MoreChatsIfOk(e, ok) == ok /\ Len(e.tried) < Len(e.chats)

\* Lines 741-745: whether the loop over the chats of entry e has another
\* chat after a send that returned (ok) or raised.
MoreChats(e, ok) == Len(e.tried) < Len(e.chats)

\* The send of line 743 returns or raises; the loops go on to the next await.
WatcherSent ==
  /\ w_pc = "send"
  /\ \E ok \in BOOLEAN :
       LET n == Len(fanout)
           e == fanout[n]
           chat_id == e.tried[Len(e.tried)]
       IN /\ seen' = [seen EXCEPT ![chat_id] = @ \cup {e.file_id, e.dir_id}]
          /\ IF MoreChats(e, ok)
             THEN /\ fanout' = [fanout EXCEPT ![n].tried = Append(@, e.chats[Len(@) + 1])]
                  /\ UNCHANGED <<known_files, w_pc, registry>>
             ELSE Advance(SortedPaths(NewFiles(current, known_files)), current, n + 1,
                          fanout)
  /\ UNCHANGED <<filesystem, screen, probe, shown, subscribers, current, tick_failed, stable,
                 user_progress, requests, events, reply>>

(***************************************************************************)
(* The request handlers                                                    *)
(***************************************************************************)
\* build_home_keyboard, for what it does to the registry.
build_home_keyboard(reg) == GetId(reg, "dir", << >>)

\* on_start (and on_home, which calls it): lines 297-318.
OnStart(c) ==
  /\ w_pc # "start"
  /\ events < MaxEvents
  /\ events' = events + 1
  /\ subscribers' = subscribers \cup {c}
  /\ user_progress' = IF c \in DOMAIN user_progress THEN user_progress
                                                     ELSE (c :> << >>) @@ user_progress
  /\ LET kb == build_home_keyboard(Reg)
     IN /\ SetReg(kb.reg)
        /\ seen' = [seen EXCEPT ![c] = @ \cup {kb.id}]
  /\ UNCHANGED <<filesystem, screen, probe, shown, watcher, stable, requests, reply>>

\* on_stop: lines 322-324.
OnStop(c) ==
  /\ w_pc # "start"
  /\ events < MaxEvents
  /\ events' = events + 1
  /\ subscribers' = IF c \in subscribers THEN subscribers \ {c} ELSE subscribers
  /\ UNCHANGED <<filesystem, screen, probe, shown, registry, watcher, stable, user_progress, requests, reply, seen>>

RECURSIVE GetIds(_, _, _)
\* get_id for each reference of a list in turn: the registry afterwards and
\* the tokens put on the buttons.
GetIds(reg, keys, ids) ==
  IF keys = << >> THEN [reg |-> reg, ids |-> ids]
  ELSE LET r == GetId(reg, keys[1][1], keys[1][2])
       IN GetIds(r.reg, Tail(keys), ids \cup {r.id})

\* build_dir_keyboard, for what it does to the registry and the tokens of
\* its buttons: the child directories, the child documents, the parent
\* (below the root), home, and the directory itself.
build_dir_keyboard(reg, rel_dir, files, lks) ==
  LET ls == list_dir(rel_dir, files, lks)
      keys == [i \in 1..Len(ls.dirs) |-> <<"dir", ls.dirs[i]>>]
              \o [i \in 1..Len(ls.files) |-> <<"file", ls.files[i]>>]
              \o (IF rel_dir # << >> THEN << <<"dir", ParentDir(rel_dir)>> >> ELSE << >>)
              \o << <<"dir", << >> >>, <<"dir", rel_dir>> >>
      r == GetIds(reg, keys, {})
  IN IF ls.err # "none" THEN [err |-> ls.err, reg |-> reg, ids |-> {}]
     ELSE [err |-> "none", reg |-> r.reg, ids |-> r.ids]

\* The tokens a client may put after "open_dir:" or "open_file:": the
\* numerals the registry can issue, and "01", which it never issues.
TokenInputs == {Str(n) : n \in 1..(Cardinality(Docs) + Cardinality(Dirs))} \cup {<<0, 1>>}

\* A handler that got as far as clear_user_messages (lines 190-192): it
\* waits for the first delete, or, with nothing to delete, for edit_text.
\* ids is the list it iterates, aliased while that list is still the one
\* user_content_messages holds.
Waiting(c, op, rel, kb) ==
  LET ids == IF c \in DOMAIN user_content_messages THEN user_content_messages[c] ELSE << >>
  IN [chat |-> c, op |-> op, rel |-> rel, kb |-> kb,
      pc |-> IF ids = << >> THEN "edit" ELSE "clear",
      ids |-> ids, aliased |-> ids # << >>, k |-> 1, j |-> 1, sent_ids |-> << >>]

\* on_open_dir up to its first await: lines 380-399.
OnOpenDir(c, t) ==
  /\ w_pc # "start"
  /\ events < MaxEvents
  /\ events' = events + 1
  /\ LET r == Resolve(Reg, t)
         kb == build_dir_keyboard(Reg, r.ref[2], tree, links)
     IN IF r.err = "KeyError"
        THEN reply' = "expired" /\ UNCHANGED <<registry, inflight>>
        ELSE IF r.ref[1] # "dir"
        THEN reply' = "not_dir" /\ UNCHANGED <<registry, inflight>>
        ELSE IF kb.err # "none"
        THEN reply' = "error" /\ UNCHANGED <<registry, inflight>>
        ELSE /\ reply' = "pending"
             /\ SetReg(kb.reg)
             /\ inflight' = Append(inflight, Waiting(c, "open_dir", r.ref[2], kb.ids))
  /\ UNCHANGED <<filesystem, screen, probe, shown, subscribers, watcher, stable, user_progress,
                 user_content_messages, mid, seen>>

\* Line 243: the entry of the document in the map of the user, False when
\* the user has no map or the map has no such entry.
IsStudied(progress, user_id, child_rel) ==
  /\ user_id \in DOMAIN progress
  /\ child_rel \in DOMAIN progress[user_id]
  /\ progress[user_id][child_rel]

\* A faulty variant of the marking: the entry is flipped.
MarkStudiedFlip(progress, user_id, rel_path) ==
  LET mine == IF user_id \in DOMAIN progress THEN progress[user_id] ELSE << >>
  IN (user_id :> ((rel_path :> ~IsStudied(progress, user_id, rel_path)) @@ mine)) @@ progress

\* A faulty variant of the marking: the store is made anew.
MarkStudiedAnew(progress, user_id, rel_path) == user_id :> (rel_path :> TRUE)

\* Lines 442-444 of on_open_file, lines 566-568 of on_random_callback.
MarkStudied(progress, user_id, rel_path) ==
  LET mine == IF user_id \in DOMAIN progress THEN progress[user_id] ELSE << >>
  IN (user_id :> ((rel_path :> TRUE) @@ mine)) @@ progress

\* on_open_file up to its first await: lines 433-456.
OnOpenFile(c, t) ==
  /\ w_pc # "start"
  /\ events < MaxEvents
  /\ events' = events + 1
  /\ LET r == Resolve(Reg, t)
         rel_path == r.ref[2]
         text == read_text_file(rel_path, tree, links)
         kb == build_dir_keyboard(Reg, ParentDir(rel_path), tree, links)
     IN IF r.err = "KeyError"
        THEN /\ reply' = "expired"
             /\ UNCHANGED <<registry, inflight, user_progress, screen>>
        ELSE IF r.ref[1] # "file"
        THEN /\ reply' = "not_file"
             /\ UNCHANGED <<registry, inflight, user_progress, screen>>
        ELSE /\ user_progress' = MarkStudied(user_progress, c, rel_path)
             /\ IF text.err # "none" \/ kb.err # "none"
                THEN /\ reply' = "error"
                     /\ UNCHANGED <<registry, inflight, screen>>
                ELSE /\ reply' = "pending"
                     /\ screen' = Opens(screen, c, rel_path)
                     /\ SetReg(kb.reg)
                     /\ inflight' = Append(inflight, Waiting(c, "open_file", rel_path, kb.ids))
  /\ UNCHANGED <<filesystem, probe, shown, subscribers, watcher, stable, user_content_messages, mid, seen>>

Remove(seq, i) == SubSeq(seq, 1, i - 1) \o SubSeq(seq, i + 1, Len(seq))

\* Line 349: the documents the user has studied.
StudiedFiles(progress, user_id) ==
  Cardinality({f \in DOMAIN progress[user_id] : progress[user_id][f]})

\* A faulty variant of the report: without the test of line 351.
StatsForAlways(studied_files, total_files) ==
  [answer |-> "stats", studied_files |-> studied_files, total_files |-> total_files,
   percentage |-> <<studied_files * 100, total_files>>]

\* Lines 351-363: what the answer reports.  The percentage is the fraction
\* studied_files * 100 / total_files, numerator and denominator.
StatsFor(studied_files, total_files) ==
  IF total_files = 0 THEN [answer |-> "no_materials"]
  ELSE [answer |-> "stats", studied_files |-> studied_files, total_files |-> total_files,
        percentage |-> <<studied_files * 100, total_files>>]

\* Lines 344-363 of on_stats_command, lines 511-530 of on_stats_callback:
\* the map of the user is made when absent, and the report is computed.
ShowStats(c) ==
  /\ user_progress' = IF c \in DOMAIN user_progress THEN user_progress
                                                     ELSE (c :> << >>) @@ user_progress
  /\ LET total_files == Cardinality(ScanAllTxt(tree))
         studied_files == StudiedFiles(user_progress', c)
     IN shown' = [op |-> "stats", user |-> c, total_files |-> total_files,
                  studied_files |-> studied_files,
                  report |-> StatsFor(studied_files, total_files)]

\* A faulty variant of line 198: the list is left as it is.
ClearedNothing(messages, chat_id) == messages

\* Line 198: the chat gets a new empty list.
Cleared(messages, chat_id) == (chat_id :> << >>) @@ messages

\* A delete of clear_user_messages returns or raises (lines 193-197); after
\* the last one line 198 puts a new empty list in place of the old one,
\* which the other handlers that iterate the old one keep.  Then
\* on_stats_callback computes its report (lines 511-530).
ClearStep(i) ==
  /\ i \in 1..Len(inflight)
  /\ inflight[i].pc = "clear"
  /\ LET me == inflight[i]
     IN IF Displays(screen, me.chat, me.ids[me.k])
        THEN \E ok \in BOOLEAN :
               screen' = IF ok THEN Hides(screen, me.chat, me.ids[me.k]) ELSE Unknown
        ELSE UNCHANGED screen
  /\ LET me == inflight[i]
     IN IF me.k < Len(me.ids)
        THEN /\ inflight' = [inflight EXCEPT ![i].k = @ + 1]
             /\ UNCHANGED <<user_content_messages, shown, user_progress>>
        ELSE /\ user_content_messages' = Cleared(user_content_messages, me.chat)
             /\ inflight' = [n \in 1..Len(inflight) |->
                   IF n = i
                   THEN [me EXCEPT !.pc = "edit", !.ids = << >>, !.aliased = FALSE, !.k = 1]
                   ELSE IF inflight[n].chat = me.chat
                   THEN [inflight[n] EXCEPT !.aliased = FALSE]
                   ELSE inflight[n]]
             /\ IF me.op = "stats" THEN ShowStats(me.chat)
                                   ELSE UNCHANGED <<shown, user_progress>>
  /\ UNCHANGED <<filesystem, probe, registry, subscribers, watcher, stable,
                 mid, events, reply, seen>>

\* "\n... (текст обрезан)"
TextCutMark == <<10, 46, 46, 46, 32, 40, 1090, 1077, 1082, 1089, 1090, 32,
                 1086, 1073, 1088, 1077, 1079, 1072, 1085, 41>>

\* The cap of line 466 and the piece length of line 474.
SendCap == 4000
SubCap == 2000

\* Lines 466-467: the part as it is sent.
Sendable(part) ==
  IF Len(part) > SendCap THEN SubSeq(part, 1, SendCap) \o TextCutMark ELSE part

\* Line 474: how many pieces the part is cut into.
NumSubParts(part) == (Len(part) + SubCap - 1) \div SubCap

\* Line 462 for each document.
Rendered == [rel \in Docs |-> render_txt_to_html(FileText(rel))]

PartsOf(rel) == Rendered[rel]

\* Line 484, then the handler ends: the ids sent join the list that
\* user_content_messages holds now, also under the eyes of the handlers
\* that iterate that very list.
Finish(i, sent) ==
  LET me == inflight[i]
      held == IF me.chat \in DOMAIN user_content_messages
              THEN user_content_messages[me.chat] ELSE << >>
      others == [n \in 1..Len(inflight) |->
                  IF n # i /\ inflight[n].chat = me.chat /\ inflight[n].aliased
                  THEN [inflight[n] EXCEPT !.ids = @ \o sent]
                  ELSE inflight[n]]
  IN /\ user_content_messages' = (me.chat :> (held \o sent)) @@ user_content_messages
     /\ inflight' = Remove(others, i)

\* The loop of line 464 goes on after part k: the next part, or the end.
NextPart(i, sent) ==
  LET me == inflight[i]
  IN IF me.k < Len(PartsOf(me.rel))
     THEN /\ inflight' = [inflight EXCEPT ![i] = [me EXCEPT !.pc = "send", !.k = @ + 1,
                                                           !.j = 1, !.sent_ids = sent]]
          /\ UNCHANGED user_content_messages
     ELSE Finish(i, sent)

\* edit_text returns or raises: line 403 of on_open_dir, line 550 of
\* on_random_callback and lines 518 and 540 of on_stats_callback, which
\* then end; line 459 of on_open_file and line
\* 578 of on_random_callback, which go on to send the parts.
EditStep(i) ==
  /\ i \in 1..Len(inflight)
  /\ inflight[i].pc = "edit"
  /\ \E ok \in BOOLEAN :
       LET me == inflight[i]
       IN /\ seen' = [seen EXCEPT ![me.chat] = @ \cup me.kb]
          /\ IF me.op \in {"open_dir", "random_none", "stats"} \/ ~ok
             THEN inflight' = Remove(inflight, i) /\ UNCHANGED user_content_messages
             ELSE IF PartsOf(me.rel) = << >>
             THEN Finish(i, << >>)
             ELSE /\ inflight' = [inflight EXCEPT ![i].pc = "send"]
                  /\ UNCHANGED user_content_messages
  /\ UNCHANGED <<filesystem, screen, probe, shown, registry, subscribers, watcher, stable, user_progress,
                 mid, events, reply>>

\* The answer of line 469 returns, or raises "message is too long", or
\* raises something else.
SendStep(i) ==
  /\ i \in 1..Len(inflight)
  /\ inflight[i].pc = "send"
  /\ \E res \in {"ok", "too_long", "error"} :
       LET me == inflight[i]
       IN CASE res = "ok" ->
                 /\ mid' = mid + 1
                 /\ screen' = Shows(screen, me.chat, mid + 1, me.rel)
                 /\ NextPart(i, Append(me.sent_ids, mid + 1))
            [] res = "too_long" ->
                 /\ inflight' = [inflight EXCEPT ![i].pc = "sub", ![i].j = 1]
                 /\ screen' = Unknown
                 /\ UNCHANGED <<mid, user_content_messages>>
            [] res = "error" ->
                 /\ NextPart(i, me.sent_ids)
                 /\ screen' = Unknown
                 /\ UNCHANGED mid
  /\ UNCHANGED <<filesystem, probe, shown, registry, subscribers, watcher, stable, user_progress,
                 events, reply, seen>>

\* The answer of line 477, for piece j of part k, returns or raises.
SubStep(i) ==
  /\ i \in 1..Len(inflight)
  /\ inflight[i].pc = "sub"
  /\ \E ok \in BOOLEAN :
       LET me == inflight[i]
           sent == IF ok THEN Append(me.sent_ids, mid + 1) ELSE me.sent_ids
       IN /\ mid' = IF ok THEN mid + 1 ELSE mid
          /\ screen' = IF ok THEN Shows(screen, me.chat, mid + 1, me.rel) ELSE Unknown
          /\ IF me.j < NumSubParts(Sendable(PartsOf(me.rel)[me.k]))
             THEN /\ inflight' = [inflight EXCEPT ![i].j = @ + 1, ![i].sent_ids = sent]
                  /\ UNCHANGED user_content_messages
             ELSE NextPart(i, sent)
  /\ UNCHANGED <<filesystem, probe, shown, registry, subscribers, watcher, stable, user_progress,
                 events, reply, seen>>

(***************************************************************************)
(* on_random_callback, on_stats_command, on_stats_callback, on_text_search  *)
(***************************************************************************)
\* on_random_callback up to its first await: lines 547-577.  With a
\* document chosen it goes on as on_open_file does.
OnRandom(c) ==
  /\ w_pc # "start"
  /\ events < MaxEvents
  /\ events' = events + 1
  /\ LET all_files == ScanAllTxt(tree)
     IN IF all_files = {}
        THEN /\ inflight' = Append(inflight, Waiting(c, "random_none", << >>, {}))
             /\ reply' = "pending"
             /\ UNCHANGED <<registry, user_progress, screen>>
        ELSE \E random_file \in all_files :
               LET f == GetId(Reg, "file", random_file)
                   rel_path == Resolve(f.reg, f.id).ref[2]
                   text == read_text_file(rel_path, tree, links)
                   kb == build_dir_keyboard(f.reg, ParentDir(rel_path), tree, links)
               IN /\ user_progress' = MarkStudied(user_progress, c, rel_path)
                  /\ IF text.err # "none" \/ kb.err # "none"
                     THEN /\ reply' = "error"
                          /\ SetReg(f.reg)
                          /\ UNCHANGED <<inflight, screen>>
                     ELSE /\ reply' = "pending"
                          /\ screen' = Opens(screen, c, rel_path)
                          /\ SetReg(kb.reg)
                          /\ inflight' = Append(inflight, Waiting(c, "random", rel_path, kb.ids))
  /\ UNCHANGED <<filesystem, probe, shown, subscribers, watcher, stable,
                 user_content_messages, mid, seen>>

\* on_stats_command: lines 344-375.
OnStats(c) ==
  /\ w_pc # "start"
  /\ events < MaxEvents
  /\ events' = events + 1
  /\ ShowStats(c)
  /\ UNCHANGED <<filesystem, screen, probe, registry, subscribers, watcher, stable, requests,
                 reply, seen>>

\* on_stats_callback up to its first await: with nothing to delete
\* clear_user_messages returns at once (line 192) and the report is
\* computed before edit_text; otherwise it is computed after the last
\* delete.
OnStatsCallback(c) ==
  /\ w_pc # "start"
  /\ events < MaxEvents
  /\ events' = events + 1
  /\ LET me == Waiting(c, "stats", << >>, {})
     IN /\ inflight' = Append(inflight, me)
        /\ IF me.pc = "edit" THEN ShowStats(c) ELSE UNCHANGED <<shown, user_progress>>
  /\ UNCHANGED <<filesystem, screen, probe, registry, subscribers, watcher, stable,
                 user_content_messages, mid, reply, seen>>

\* str.lower() on the letters the model uses: A-Z and the Cyrillic capitals.
Lower(s) ==
  [i \in 1..Len(s) |->
     IF s[i] \in 65..90 \/ s[i] \in 1040..1071 THEN s[i] + 32 ELSE s[i]]

\* term in s, for a term that is not empty.
Contains(term, s) ==
  \E i \in 1..(Len(s) - Len(term) + 1) : SubSeq(s, i, i + Len(term) - 1) = term

\* Line 640.
SearchTerm(text) == Strip(Lower(text))

\* The least length of a query (line 641), the longest context and the most
\* contexts of a document (lines 658-659), the results listed and the
\* results with a button (lines 681 and 700).
MinQuery == 2
ContextCap == 200
MaxContexts == 3
ListedCap == 5
ButtonCap == 3

\* A faulty variant of line 641: only the empty query is refused.
TooShortEmpty(search_term) == Len(search_term) < 1

\* Line 641.
TooShort(search_term) == Len(search_term) < MinQuery

\* Lines 655-658 for line i of lines: the line with its neighbours, cut.
Context(lines, i) ==
  LET start == IF i - 1 > 1 THEN i - 1 ELSE 1
      end == IF i + 1 < Len(lines) THEN i + 1 ELSE Len(lines)
      context == Join(SubSeq(lines, start, end), <<10>>)
  IN IF Len(context) > ContextCap
     THEN SubSeq(context, 1, ContextCap) \o <<46, 46, 46>>
     ELSE context

RECURSIVE MatchingLinesAll(_, _, _, _)
\* A faulty variant of the loop: without the break of lines 659-660.
MatchingLinesAll(lines, search_term, i, matching_lines) ==
  IF i > Len(lines) THEN matching_lines
  ELSE IF Contains(search_term, lines[i])
  THEN MatchingLinesAll(lines, search_term, i + 1, Append(matching_lines, Context(lines, i)))
  ELSE MatchingLinesAll(lines, search_term, i + 1, matching_lines)

RECURSIVE MatchingLines(_, _, _, _)
\* The loop of lines 653-660 from line i on.
MatchingLines(lines, search_term, i, matching_lines) ==
  IF i > Len(lines) THEN matching_lines
  ELSE IF Contains(search_term, lines[i])
  THEN LET more == Append(matching_lines, Context(lines, i))
       IN IF Len(more) >= MaxContexts THEN more
          ELSE MatchingLines(lines, search_term, i + 1, more)
  ELSE MatchingLines(lines, search_term, i + 1, matching_lines)

\* Lines 648-663 for one document that was read: its entry of results, or
\* none.
SearchFile(file_path, text, search_term) ==
  LET content == Lower(text)
      matching_lines == MatchingLines(SplitLines(content), search_term, 1, << >>)
  IN IF Contains(search_term, content) \/ Contains(search_term, Lower(JoinSlash(file_path)))
     THEN (IF matching_lines # << >>
           THEN <<[file_path |-> file_path, contexts |-> matching_lines]>>
           ELSE << >>)
     ELSE << >>

RECURSIVE SearchLoopAbort(_, _, _, _, _, _, _)
\* A faulty variant of the loop: the try around it, so that a document
\* that cannot be read ends the search.
SearchLoopAbort(order, i, bad, search_term, files, lks, results) ==
  IF i > Len(order) THEN results
  ELSE LET text == read_text_file(order[i], files, lks)
       IN IF order[i] \in bad \/ text.err # "none"
          THEN results
          ELSE SearchLoopAbort(order, i + 1, bad, search_term, files, lks,
                               results \o SearchFile(order[i], text.text, search_term))

RECURSIVE SearchLoop(_, _, _, _, _, _, _)
\* The loop of lines 646-665 from document i of order on; the documents of
\* bad cannot be read or decoded.
SearchLoop(order, i, bad, search_term, files, lks, results) ==
  IF i > Len(order) THEN results
  ELSE LET text == read_text_file(order[i], files, lks)
       IN IF order[i] \in bad \/ text.err # "none"
          THEN SearchLoop(order, i + 1, bad, search_term, files, lks, results)
          ELSE SearchLoop(order, i + 1, bad, search_term, files, lks,
                          results \o SearchFile(order[i], text.text, search_term))

\* The first n of a list.
FirstOf(seq, n) == SubSeq(seq, 1, IF Len(seq) < n THEN Len(seq) ELSE n)

\* The messages a client may send as a query: " T", "# T" and "a.".
TextInputs == {<<32, 84>>, <<35, 32, 84>>, <<97, 46>>}

\* on_text_search: lines 637-707.  The set of line 646 is walked in some
\* order, and any of its documents may fail to be read.
OnTextSearch(c, text) ==
  /\ w_pc # "start"
  /\ events < MaxEvents
  /\ events' = events + 1
  /\ LET search_term == SearchTerm(text)
     IN IF TooShort(search_term)
        THEN /\ shown' = [op |-> "search", text |-> text, answer |-> "hint",
                          scanned |-> FALSE, read |-> {}, failed |-> {}, results |-> << >>]
             /\ UNCHANGED <<registry, seen>>
        ELSE \E order \in ListOf(ScanAllTxt(tree)) :
             \E bad \in SUBSET ScanAllTxt(tree) :
               LET results == SearchLoop(order, 1, bad, search_term, tree, links, << >>)
                   listed == FirstOf(results, ListedCap)
                   buttons == FirstOf(results, ButtonCap)
                   r == GetIds(Reg, [i \in 1..Len(listed) |-> <<"file", listed[i].file_path>>], {})
                   b == GetIds(r.reg, [i \in 1..Len(buttons) |-> <<"file", buttons[i].file_path>>], {})
               IN /\ shown' = [op |-> "search", text |-> text,
                               answer |-> IF results = << >> THEN "nothing" ELSE "results",
                               scanned |-> TRUE, read |-> SeqToSet(order), failed |-> bad,
                               results |-> results]
                  /\ SetReg(b.reg)
                  /\ seen' = [seen EXCEPT ![c] = @ \cup b.ids]
  /\ UNCHANGED <<filesystem, screen, probe, subscribers, watcher, stable, user_progress,
                 requests, reply>>

Next ==
  \/ \E D \in SUBSET Docs : ChangeTree(D)
  \/ WatcherStart
  \/ WatcherTick
  \/ WatcherSent
  \/ \E c \in Chats : OnStart(c)
  \/ \E c \in Chats : OnStop(c)
  \/ \E c \in Chats, t \in TokenInputs : OnOpenDir(c, t)
  \/ \E c \in Chats, t \in TokenInputs : OnOpenFile(c, t)
  \/ \E i \in 1..MaxEvents : ClearStep(i)
  \/ \E i \in 1..MaxEvents : EditStep(i)
  \/ \E i \in 1..MaxEvents : SendStep(i)
  \/ \E i \in 1..MaxEvents : SubStep(i)

Spec == Init /\ [][Next]_vars

(***************************************************************************)
(* The study requests: a random document and the statistics, over a tree   *)
(* that changes                                                            *)
(***************************************************************************)
NextStudy ==
  \/ \E D \in SUBSET Docs : ChangeTree(D)
  \/ WatcherStart
  \/ \E c \in Chats : OnRandom(c)
  \/ \E c \in Chats : OnStats(c)
  \/ \E c \in Chats : OnStatsCallback(c)
  \/ \E i \in 1..MaxEvents : ClearStep(i)
  \/ \E i \in 1..MaxEvents : EditStep(i)
  \/ \E i \in 1..MaxEvents : SendStep(i)
  \/ \E i \in 1..MaxEvents : SubStep(i)

SpecStudy == Init /\ [][NextStudy]_vars

(***************************************************************************)
(* The search requests, over a tree that changes                           *)
(***************************************************************************)
NextQuery ==
  \/ \E D \in SUBSET Docs : ChangeTree(D)
  \/ WatcherStart
  \/ \E c \in Chats, text \in TextInputs : OnTextSearch(c, text)

SpecQuery == Init /\ [][NextQuery]_vars

(***************************************************************************)
(* The accessor on its own: list_dir and read_text_file called with any    *)
(* relative path of up to MaxSegs segments, with and without a symbolic    *)
(* link that leaves the root.                                              *)
(***************************************************************************)
Segs == {"..", "d", "a.txt", "b.txt", "lnk"}

RECURSIVE PathsUpTo(_)
PathsUpTo(n) ==
  IF n = 0 THEN {<< >>}
  ELSE LET S == PathsUpTo(n - 1) IN S \cup {Append(q, seg) : q \in S, seg \in Segs}

ClientPaths == PathsUpTo(MaxSegs)

InitAccessor ==
  /\ tree \in {{Note} \cup D : D \in SUBSET Docs}
  /\ links \in SUBSET {<<"lnk">>}
  /\ Fresh

ProbeListDir(rel_dir) ==
  /\ probe = NoProbe
  /\ probe' = [op |-> "list_dir", path |-> rel_dir, res |-> list_dir(rel_dir, tree, links)]
  /\ UNCHANGED <<filesystem, screen, shown, registry, subscribers, watcher, stable,
                 user_progress, requests, events, reply, seen>>

ProbeReadTextFile(rel_path) ==
  /\ probe = NoProbe
  /\ probe' = [op |-> "read_text_file", path |-> rel_path,
               res |-> read_text_file(rel_path, tree, links)]
  /\ UNCHANGED <<filesystem, screen, shown, registry, subscribers, watcher, stable,
                 user_progress, requests, events, reply, seen>>

NextAccessor ==
  \/ \E rel_dir \in ClientPaths : ProbeListDir(rel_dir)
  \/ \E rel_path \in ClientPaths : ProbeReadTextFile(rel_path)

SpecAccessor == InitAccessor /\ [][NextAccessor]_vars

(***************************************************************************)
(* The renderer on its own: render_txt_to_html called with every text of   *)
(* up to MaxLines lines drawn from LineInputs, and with a few long texts.  *)
(***************************************************************************)
\* "", "x", "# T", "- i", the fence, "a&b", " " and "##".
LineInputs ==
  {<< >>, <<120>>, <<35, 32, 84>>, <<45, 32, 105>>, Fence, <<97, 38, 98>>, <<32>>,
   <<35, 35>>}

RECURSIVE LinesUpTo(_)
LinesUpTo(n) ==
  IF n = 0 THEN {<< >>}
  ELSE LET S == LinesUpTo(n - 1) IN S \cup {Append(ls, l) : ls \in S, l \in LineInputs}

\* One line of ChunkCap + 1 letters; a code block of CodeCap ampersands; a
\* code block of CodeCap + 1 letters; the long line after a short one.
LongRun == [i \in 1..(ChunkCap + 1) |-> 120]
LongCode == Fence \o <<10>> \o [i \in 1..CodeCap |-> 38] \o <<10>> \o Fence
CutCode == Fence \o <<10>> \o [i \in 1..(CodeCap + 1) |-> 120] \o <<10>> \o Fence
LongTexts == {LongRun, LongCode, CutCode, <<120, 10>> \o LongRun}

RenderInputs == {Join(ls, <<10>>) : ls \in LinesUpTo(MaxLines)} \cup LongTexts

ProbeRender(text) ==
  /\ probe = NoProbe
  /\ probe' = [op |-> "render_txt_to_html", text |-> text, res |-> render_txt_to_html(text)]
  /\ UNCHANGED <<filesystem, screen, shown, registry, subscribers, watcher, stable,
                 user_progress, requests, events, reply, seen>>

NextRenderer == \E text \in RenderInputs : ProbeRender(text)

InitRenderer ==
  /\ tree = {Note}
  /\ links = {}
  /\ Fresh

SpecRenderer == InitRenderer /\ [][NextRenderer]_vars

(***************************************************************************)
(* The fan-out of the watcher while chats subscribe and unsubscribe,       *)
(* from the state in which every chat has sent /start and the watcher has  *)
(* taken its first snapshot                                                *)
(***************************************************************************)
InitFanout ==
  /\ tree \in {{Note} \cup D : D \in SUBSET Docs}
  /\ links = {}
  /\ LET kb == build_home_keyboard([i2p |-> << >>, p2i |-> << >>, ctr |-> 0])
     IN /\ id_to_path = kb.reg.i2p
        /\ path_to_id = kb.reg.p2i
        /\ counter = kb.reg.ctr
        /\ seen = [c \in Chats |-> {kb.id}]
  /\ subscribers = Chats
  /\ user_progress = [c \in Chats |-> << >>]
  /\ known_files = InitialSnapshot(tree)
  /\ current = ScanAllTxt(tree)
  /\ stable = ScanAllTxt(tree)
  /\ w_pc = "sleep"
  /\ fanout = << >>
  /\ tick_failed = FALSE
  /\ user_content_messages = << >>
  /\ inflight = << >>
  /\ mid = 0
  /\ events = 0
  /\ reply = "none"
  /\ probe = NoProbe
  /\ shown = NoShown
  /\ screen = NoScreen

NextFanout ==
  \/ \E D \in SUBSET Docs : ChangeTree(D)
  \/ WatcherTick
  \/ WatcherSent
  \/ \E c \in Chats : OnStart(c)
  \/ \E c \in Chats : OnStop(c)

SpecFanout == InitFanout /\ [][NextFanout]_vars

(***************************************************************************)
(* Navigation in a tree that may hold a symbolic link to a directory       *)
(* outside the root                                                        *)
(***************************************************************************)
InitLinked ==
  /\ tree \in {{Note} \cup D : D \in SUBSET Docs}
  /\ links \in SUBSET {<<"lnk">>}
  /\ Fresh

NextLinked ==
  \/ \E D \in SUBSET Docs : ChangeTree(D)
  \/ WatcherStart
  \/ \E c \in Chats : OnStart(c)
  \/ \E c \in Chats, t \in TokenInputs : OnOpenDir(c, t)
  \/ \E i \in 1..MaxEvents : EditStep(i)

SpecLinked == InitLinked /\ [][NextLinked]_vars

(***************************************************************************)
(* The statistics while the tree changes, from the state in which chat 1   *)
(* has opened a.txt and then d/b.txt as random documents, every call has   *)
(* returned and the watcher sleeps                                         *)
(***************************************************************************)
InitStudied ==
  /\ tree = {Note} \cup Docs
  /\ links = {}
  /\ LET none == [i2p |-> << >>, p2i |-> << >>, ctr |-> 0]
         f1 == GetId(none, "file", RootDoc)
         kb1 == build_dir_keyboard(f1.reg, ParentDir(RootDoc), tree, links)
         f2 == GetId(kb1.reg, "file", SubDoc)
         kb2 == build_dir_keyboard(f2.reg, ParentDir(SubDoc), tree, links)
     IN /\ id_to_path = kb2.reg.i2p
        /\ path_to_id = kb2.reg.p2i
        /\ counter = kb2.reg.ctr
        /\ seen = [c \in Chats |-> IF c = 1 THEN kb1.ids \cup kb2.ids ELSE {}]
  /\ user_progress = MarkStudied(MarkStudied(<< >>, 1, RootDoc), 1, SubDoc)
  /\ user_content_messages = Cleared((1 :> <<1>>), 1)
  /\ mid = Len(PartsOf(RootDoc)) + Len(PartsOf(SubDoc))
  /\ screen = Opens(NoScreen, 1, SubDoc)
  /\ reply = "pending"
  /\ inflight = << >>
  /\ subscribers = {}
  /\ known_files = InitialSnapshot(tree)
  /\ current = ScanAllTxt(tree)
  /\ stable = ScanAllTxt(tree)
  /\ w_pc = "sleep"
  /\ fanout = << >>
  /\ tick_failed = FALSE
  /\ events = 0
  /\ probe = NoProbe
  /\ shown = NoShown

NextStats ==
  \/ \E D \in SUBSET Docs : ChangeTree(D)
  \/ WatcherTick
  \/ \E c \in Chats : OnStats(c)
  \/ \E c \in Chats : OnStatsCallback(c)
  \/ \E i \in 1..MaxEvents : EditStep(i)

SpecStats == InitStudied /\ [][NextStats]_vars

(***************************************************************************)
(* The search of one document, called directly: lines 640-663              *)
(***************************************************************************)
MaxDocLines == 4

\* A line of ContextCap + 1 characters that ends in "ab".
LongLine ==
  [i \in 1..(ContextCap + 1) |->
     IF i < ContextCap THEN 120 ELSE IF i = ContextCap THEN 97 ELSE 98]

\* The lines of a document: "", "x", "ab", "Ab" and the long line.
DocLineInputs == {<< >>, <<120>>, <<97, 98>>, <<65, 98>>, LongLine}

RECURSIVE DocLinesUpTo(_)
DocLinesUpTo(n) ==
  IF n = 0 THEN {<< >>}
  ELSE LET S == DocLinesUpTo(n - 1) IN S \cup {Append(ls, l) : ls \in S, l \in DocLineInputs}

DocTexts == {Join(ls, <<10>>) : ls \in DocLinesUpTo(MaxDocLines)}

\* The queries: "ab", "AB", and "a." that only the path a.txt contains.
QueryInputs == {<<97, 98>>, <<65, 66>>, <<97, 46>>}

\* One search over the document a.txt with the given text.
ProbeSearch(text, query) ==
  /\ probe = NoProbe
  /\ probe' = [op |-> "search", text |-> text, query |-> query,
               res |-> IF TooShort(SearchTerm(query)) THEN << >>
                       ELSE SearchFile(RootDoc, text, SearchTerm(query))]
  /\ UNCHANGED <<filesystem, screen, shown, registry, subscribers, watcher, stable,
                 user_progress, requests, events, reply, seen>>

NextSearch == \E text \in DocTexts, query \in QueryInputs : ProbeSearch(text, query)

InitSearch == InitRenderer

SpecSearch == InitSearch /\ [][NextSearch]_vars

(***************************************************************************)
(* The properties                                                          *)
(***************************************************************************)
\* The references a caller can hand to get_id.
AllRefs == ({"dir"} \X Dirs) \cup ({"file"} \X Docs) \cup {<<"file", << >> >>}

\* C1: in every registry the program reaches, get_id of a reference, then
\* get_id of any reference, then get_id of the first again gives the token
\* of the first call and allocates nothing, and resolve of that token gives
\* the reference back.
C1_GetIdIdempotent ==
  \A ref \in AllRefs, other \in AllRefs :
    LET a == GetId(Reg, ref[1], ref[2])
        m == GetId(a.reg, other[1], other[2])
        b == GetId(m.reg, ref[1], ref[2])
    IN /\ b.id = a.id
       /\ b.reg = m.reg
       /\ Resolve(a.reg, a.id) = [err |-> "none", ref |-> ref]
       /\ Resolve(b.reg, b.id) = [err |-> "none", ref |-> ref]

\* Both chats sent /start: get_id of the root ran twice and one token exists.
C1_Witness ==
  /\ subscribers = Chats
  /\ counter = 1
  /\ <<"dir", << >> >> \in DOMAIN path_to_id
  /\ path_to_id[<<"dir", << >> >>] = Str(1)

\* The two maps are inverse to each other and hold counter entries, under
\* the tokens 1..counter.
RegistryBijection ==
  /\ DOMAIN id_to_path = {Str(n) : n \in 1..counter}
  /\ Cardinality(DOMAIN id_to_path) = counter
  /\ Cardinality(DOMAIN path_to_id) = counter
  /\ \A t \in DOMAIN id_to_path :
       id_to_path[t] \in DOMAIN path_to_id /\ path_to_id[id_to_path[t]] = t
  /\ \A key \in DOMAIN path_to_id :
       path_to_id[key] \in DOMAIN id_to_path /\ id_to_path[path_to_id[key]] = key

\* A step keeps every token on the reference it had.
TokensKept ==
  \A t \in DOMAIN id_to_path :
    t \in DOMAIN id_to_path' /\ id_to_path'[t] = id_to_path[t]

\* C2: at every moment, with handlers and the watcher interleaved, the
\* registry is a bijection between the tokens issued and the references
\* registered and counter is their number; and no step removes a token or
\* moves it to another reference.
C2_RegistryBijection == [](RegistryBijection) /\ [][TokensKept]_vars

\* The watcher waits for a send with a handler in flight and at least three
\* tokens issued.
C2_Witness == counter >= 3 /\ w_pc = "send" /\ inflight # << >>

\* C3: a request to open a directory or a document with a token the
\* registry has not issued gets KeyError from resolve, the handler answers
\* "expired" and ends normally, and the registry, the progress and the
\* tracked message ids stay as they were.
C3_UnknownTokenRecoverable ==
  [][\A c \in Chats, t \in TokenInputs :
       (t \notin DOMAIN id_to_path /\ (OnOpenDir(c, t) \/ OnOpenFile(c, t)))
         => /\ Resolve(Reg, t).err = "KeyError"
            /\ reply' = "expired"
            /\ inflight' = inflight
            /\ UNCHANGED <<registry, user_progress, user_content_messages>>]_vars

\* A request with an unknown token has been answered while tokens exist.
C3_Witness == reply = "expired" /\ counter >= 1 /\ user_progress # << >>

\* Where Path.resolve() puts a client's relative path.
Canonical(rel) == ResolvePath(<< >>, INFO_ROOT \o rel, links)

\* The location is the root or below it.
InsideRoot(loc) ==
  Len(loc) >= Len(INFO_ROOT) /\ SubSeq(loc, 1, Len(INFO_ROOT)) = INFO_ROOT

\* C4: list_dir and read_text_file raise PermissionError exactly for the
\* paths whose canonical location, ".." segments and symbolic links
\* followed, is outside the content root; then they have not opened the
\* directory or the file and return nothing.
C4_BoundaryCheck ==
  probe.op # "none" =>
    /\ (~InsideRoot(Canonical(probe.path))) <=> (probe.res.err = "PermissionError")
    /\ ~InsideRoot(Canonical(probe.path)) =>
         /\ ~probe.res.opened
         /\ \A f \in DOMAIN probe.res \ {"err", "opened"} : probe.res[f] = << >>

\* A path that goes down and then twice up has been refused.
C4_Witness ==
  /\ probe.op = "read_text_file"
  /\ probe.path = <<"d", "..", "..">>
  /\ probe.res.err = "PermissionError"

\* C5, as the claim states it: a request whose token was never on a button
\* sent to the requesting chat is answered "expired".
C5_OnlyOwnTokens ==
  [][\A c \in Chats, t \in TokenInputs :
       (t \notin seen[c] /\ (OnOpenDir(c, t) \/ OnOpenFile(c, t)))
         => reply' = "expired"]_vars

\* C5, as the code has it: a request is answered "expired" exactly when
\* the registry has not issued its token, to whichever chat; and the tokens
\* a step issues are the numerals that follow counter.
C5_IssuedTokensResolve ==
  [][/\ \A c \in Chats, t \in TokenInputs :
          (OnOpenDir(c, t) \/ OnOpenFile(c, t))
            => ((reply' = "expired") <=> (t \notin DOMAIN id_to_path))
     /\ DOMAIN id_to_path' = DOMAIN id_to_path \cup {Str(n) : n \in (counter + 1)..counter'}]_vars

\* A chat that was sent no button has opened a directory.
C5_Witness ==
  \E c \in Chats : seen[c] = {} /\ reply = "pending" /\ inflight # << >>
                   /\ inflight[Len(inflight)].chat = c

\* The step ends a tick whose scan succeeded.
TickEnds ==
  /\ WatcherStart \/ WatcherTick \/ WatcherSent
  /\ w_pc' = "sleep"
  /\ ~tick_failed'

\* The snapshot the tick started from.
SnapshotBefore == IF w_pc = "start" THEN ScanAllTxt(tree) ELSE known_files

\* C6: a tick that starts from snapshot K and scans K and the new
\* documents N notifies of exactly the documents of N, once each and each
\* to every chat of its list, and leaves the snapshot K \cup N; so a tick
\* whose scan equals the snapshot notifies of nothing.
C6_DetectsExactlyNew ==
  [][(TickEnds /\ SnapshotBefore \subseteq current')
       => LET N == current' \ SnapshotBefore
          IN /\ Len(fanout') = Cardinality(N)
             /\ {fanout'[i].rel : i \in 1..Len(fanout')} = N
             /\ \A i \in 1..Len(fanout') : fanout'[i].tried = fanout'[i].chats
             /\ known_files' = SnapshotBefore \cup N]_vars

\* A tick has notified a subscriber of a new document and left an older
\* one alone.
C6_Witness ==
  /\ w_pc = "sleep"
  /\ fanout # << >>
  /\ fanout[1].tried # << >>
  /\ known_files = current
  /\ known_files # {fanout[i].rel : i \in 1..Len(fanout)}

\* C7, as the claim states it: after every tick whose scan succeeded the
\* snapshot is the set scanned.
C7_SnapshotIsScan == (w_pc = "sleep" /\ ~tick_failed) => known_files = current

\* C8: no notification goes out for a document that existed when the
\* watcher started and has been there ever since.
C8_NoSpuriousNotification ==
  \A i \in 1..Len(fanout) : fanout[i].chats # << >> => fanout[i].rel \notin stable

\* A notification went out while a document from before the start is
\* still there.
C8_Witness ==
  /\ stable # {}
  /\ fanout # << >>
  /\ fanout[1].tried # << >>
  /\ w_pc = "sleep"

\* C9, as the claim states it: no error ends the watcher task.
C9_WatcherNeverEnds == w_pc # "dead"

\* The entries of fanout go by the order of their paths, their tokens
\* resolve to the document and to its directory, and every entry but the
\* one in progress went to each chat of its list, once each.
FanoutInOrder ==
  /\ \A i \in 1..Len(fanout) :
       LET e == fanout[i]
       IN /\ Resolve(Reg, e.file_id) = [err |-> "none", ref |-> <<"file", e.rel>>]
          /\ Resolve(Reg, e.dir_id)
               = [err |-> "none", ref |-> <<"dir", SubSeq(e.rel, 1, Len(e.rel) - 1)>>]
          /\ e.tried = SubSeq(e.chats, 1, Len(e.tried))
          /\ \A j, k \in 1..Len(e.chats) : e.chats[j] = e.chats[k] => j = k
          /\ (i < Len(fanout) \/ w_pc = "sleep") => e.tried = e.chats
          /\ \A j \in 1..(i - 1) : StrLess(JoinSlash(fanout[j].rel), JoinSlash(e.rel))
  /\ w_pc = "send" => fanout # << >> /\ fanout[Len(fanout)].tried # << >>

\* The entries a step adds go to the chats subscribed at that step.
FanoutToSubscribers ==
  \A i \in 1..Len(fanout') :
    (i > Len(fanout) \/ fanout'[i] # fanout[i]) =>
      \/ SeqToSet(fanout'[i].chats) = subscribers
      \/ /\ i = Len(fanout)
         /\ fanout'[i].chats = fanout[i].chats
         /\ fanout'[i].rel = fanout[i].rel

\* C10: within a tick the new documents are notified of in the order of
\* their paths; each goes, once, to every chat that is subscribed when its
\* fan-out starts, whether the sends to the others return or raise; and
\* from the moment a notification is sent its two tokens resolve to the
\* document and to the directory that holds it.
C10_FanoutOrderAndTokens == [](FanoutInOrder) /\ [][FanoutToSubscribers]_vars

\* A tick has notified two subscribers of two new documents.
C10_Witness ==
  /\ w_pc = "sleep"
  /\ Len(fanout) = 2
  /\ Len(fanout[1].tried) = 2
  /\ Len(fanout[2].tried) = 2

EndsWith(s, suffix) ==
  Len(s) >= Len(suffix) /\ SubSeq(s, Len(s) - Len(suffix) + 1, Len(s)) = suffix

\* The segment is one code block: it opens with <pre> and its only </pre>
\* is its end.
IsSingleCodeBlock(seg) ==
  /\ StartsWith(seg, PreOpen)
  /\ EndsWith(seg, PreClose)
  /\ \A i \in 1..(Len(seg) - Len(PreClose)) :
       SubSeq(seg, i, i + Len(PreClose) - 1) # PreClose

\* C11, as the claim states it: every segment render_txt_to_html returns
\* is at most ChunkCap long, but for a segment that is one code block,
\* which is at most CodeCap plus the length of the truncation marker long.
C11_SegmentsBounded ==
  probe.op = "render_txt_to_html" =>
    \A i \in 1..Len(probe.res) :
      \/ Len(probe.res[i]) <= ChunkCap
      \/ /\ IsSingleCodeBlock(probe.res[i])
         /\ Len(probe.res[i]) <= CodeCap + Len(CodeCutMark)

RECURSIVE NonCodeLines(_, _, _)
\* The lines of a text outside its code blocks, the fences left out; a
\* fence that is never closed takes every line after it.
NonCodeLines(lines, i, in_code) ==
  IF i > Len(lines) THEN << >>
  ELSE LET line == RStrip(lines[i], {13})
       IN IF StartsWith(Strip(line), Fence)
          THEN NonCodeLines(lines, i + 1, ~in_code)
          ELSE IF in_code THEN NonCodeLines(lines, i + 1, in_code)
          ELSE <<line>> \o NonCodeLines(lines, i + 1, in_code)

RECURSIVE OutsidePre(_, _, _)
\* The lines of the segments outside their <pre> blocks.
OutsidePre(lines, i, in_pre) ==
  IF i > Len(lines) THEN << >>
  ELSE LET opens == ~in_pre /\ StartsWith(lines[i], PreOpen)
           inside == in_pre \/ opens
       IN IF inside
          THEN OutsidePre(lines, i + 1, ~EndsWith(lines[i], PreClose))
          ELSE <<lines[i]>> \o OutsidePre(lines, i + 1, FALSE)

RECURSIVE AllLines(_)
\* The segments in order, each split into its lines.
AllLines(segs) ==
  IF segs = << >> THEN << >> ELSE SplitLines(segs[1]) \o AllLines(Tail(segs))

NonBlank(lines) == SelectSeq(lines, LAMBDA l : Strip(l) # << >>)

RECURSIVE Unescape(_)
\* The entities of escape_html turned back into their characters.
Unescape(s) ==
  LET amps == {i \in 1..Len(s) : s[i] = 38}
  IN IF amps = {} THEN s
     ELSE LET i == CHOOSE j \in amps : \A k \in amps : j <= k
              rest == SubSeq(s, i, Len(s))
          IN SubSeq(s, 1, i - 1) \o
             (IF StartsWith(rest, <<38, 108, 116, 59>>)
              THEN <<60>> \o Unescape(SubSeq(rest, 5, Len(rest)))
              ELSE IF StartsWith(rest, <<38, 103, 116, 59>>)
              THEN <<62>> \o Unescape(SubSeq(rest, 5, Len(rest)))
              ELSE IF StartsWith(rest, <<38, 97, 109, 112, 59>>)
              THEN <<38>> \o Unescape(SubSeq(rest, 6, Len(rest)))
              ELSE <<38>> \o Unescape(SubSeq(rest, 2, Len(rest))))

\* What a line outside code says: the title of a heading, the text of a
\* list item, the line itself otherwise.
Content(line) ==
  LET stripped == Strip(line)
  IN IF Heading(stripped).match THEN Heading(stripped).title
     ELSE IF IsItem(stripped) THEN LStrip(Tail(stripped), Whitespace)
     ELSE line

\* The fragment rendered for a line, without the markers put around it
\* (the sign and <b> </b> of a heading, the bullet of an item) and with
\* its entities turned back.
Unmark(line, frag) ==
  LET stripped == Strip(line)
  IN IF Heading(stripped).match
     THEN Unescape(SubSeq(frag, 2 + Len(BoldOpen), Len(frag) - Len(BoldClose)))
     ELSE IF IsItem(stripped) THEN Unescape(SubSeq(frag, 3, Len(frag)))
     ELSE Unescape(frag)

ShortQuery(text) == Len(Strip(text)) < 2

\* C13: a search whose trimmed query is shorter than two characters gives
\* no results, reads no document and mints no token: the request answers
\* with the hint, and the registry is as it was.
C13_ShortQueryRefused ==
  /\ [](shown.op = "search" /\ ShortQuery(shown.text)
          => shown.answer = "hint" /\ ~shown.scanned /\ shown.read = {}
             /\ shown.results = << >>)
  /\ [][\A c \in Chats, text \in TextInputs :
          OnTextSearch(c, text) /\ ShortQuery(text)
            => shown'.op = "search" /\ shown'.text = text /\ UNCHANGED registry]_vars

\* A query of two characters that trims to one was refused although the
\* tree holds documents.
C13_Witness ==
  /\ shown.op = "search"
  /\ Len(shown.text) = 2
  /\ Len(Strip(shown.text)) = 1
  /\ shown.answer = "hint"
  /\ ScanAllTxt(tree) # {}

\* The lines of the document that contain the query, and the first three
\* of them.
DocMatches(lines, q) == {i \in 1..Len(lines) : Contains(q, lines[i])}

FirstMatches(lines, q) ==
  {i \in DocMatches(lines, q) :
     Cardinality({j \in DocMatches(lines, q) : j < i}) < 3}

\* Line i of the document with the line before and the line after it, cut
\* at 200 characters with "..." when longer.
DocWindow(lines, i) ==
  LET from == IF i > 1 THEN i - 1 ELSE 1
      to == IF i < Len(lines) THEN i + 1 ELSE Len(lines)
      window == Join(SubSeq(lines, from, to), <<10>>)
  IN IF Len(window) > 200 THEN SubSeq(window, 1, 200) \o <<46, 46, 46>> ELSE window

\* C14: a document with a line that contains the lower-cased query is in
\* the results, and each of its first three matching lines has a snippet
\* that is that line of the document with its neighbours, cut at 200
\* characters.
C14_SnippetsAreDocumentLines ==
  probe.op = "search" =>
    LET lines == SplitLines(probe.text)
        q == Lower(probe.query)
    IN DocMatches(lines, q) # {} =>
         /\ Len(probe.res) = 1
         /\ probe.res[1].file_path = RootDoc
         /\ \A i \in FirstMatches(lines, q) :
              \E k \in 1..Len(probe.res[1].contexts) :
                probe.res[1].contexts[k] = DocWindow(lines, i)

\* The documents among fs with a line that contains the query q in lower
\* case.
WithMatch(fs, q) ==
  {f \in fs : \E i \in DOMAIN SplitLines(Lower(FileText(f))) :
                 Contains(q, SplitLines(Lower(FileText(f)))[i])}

\* C15: a document that cannot be read or decoded during a search is
\* skipped and nothing else: the search ends with its ordinary answer, and
\* the results are the matching documents among those that were read.
C15_ReadFailureIsolated ==
  shown.op = "search" /\ shown.scanned =>
    /\ shown.answer \in {"nothing", "results"}
    /\ {shown.results[k].file_path : k \in DOMAIN shown.results}
         = WithMatch(shown.read \ shown.failed, Strip(Lower(shown.text)))
    /\ shown.answer = "results" <=> shown.results # << >>

\* A search in which one document failed and another, which matches, was
\* returned.
C15_Witness ==
  /\ shown.op = "search"
  /\ shown.failed = {SubDoc}
  /\ shown.read = Docs
  /\ shown.answer = "results"
  /\ \E k \in DOMAIN shown.results : shown.results[k].file_path = RootDoc

\* C16: marking is an idempotent set-to-true, in every store the program
\* reaches and for every user and document: the document is studied after
\* one marking and after two, and the two stores are the same.  Nothing is
\* studied at the start, and a pair becomes studied only by a step that
\* changes the store as the marking of that pair does: a pair never marked
\* is not studied, also when the user has no map.
C16_MarkIdempotent ==
  /\ [](\A u \in Chats, f \in Docs :
          LET once == MarkStudied(user_progress, u, f)
              twice == MarkStudied(once, u, f)
          IN /\ IsStudied(once, u, f)
             /\ IsStudied(twice, u, f)
             /\ once = twice
             /\ (u \notin DOMAIN user_progress => ~IsStudied(user_progress, u, f)))
  /\ \A u \in Chats, f \in Docs : ~IsStudied(user_progress, u, f)
  /\ [][\A u \in Chats, f \in Docs :
          ~IsStudied(user_progress, u, f) /\ IsStudied(user_progress', u, f)
            => user_progress' = MarkStudied(user_progress, u, f)]_vars

\* One user has opened a.txt, the other user has no map yet and has
\* nothing studied.
C16_Witness ==
  /\ IsStudied(user_progress, 1, RootDoc)
  /\ ~IsStudied(user_progress, 1, SubDoc)
  /\ 2 \notin DOMAIN user_progress
  /\ ~IsStudied(user_progress, 2, RootDoc)

\* The studied count a report shows, 0 when it shows none.
ReportedStudied(report) ==
  IF "studied_files" \in DOMAIN report THEN report.studied_files ELSE 0

\* C17: the statistics over a tree without documents report no studied
\* count other than 0 and no percentage other than 0, whatever the map of
\* the user holds, and nothing is divided by zero: a percentage is only
\* ever computed over a total that is not 0.
C17_StatsOfEmptyTree ==
  shown.op = "stats" =>
    /\ shown.total_files = 0 =>
         /\ ReportedStudied(shown.report) = 0
         /\ "percentage" \in DOMAIN shown.report => shown.report.percentage[1] = 0
    /\ "percentage" \in DOMAIN shown.report => shown.report.percentage[2] # 0

\* The statistics of a user who has studied a document were asked for
\* after the tree lost its documents.
C17_Witness ==
  /\ shown.op = "stats"
  /\ shown.total_files = 0
  /\ shown.studied_files > 0
  /\ shown.report.answer = "no_materials"

\* What the store holds for a user.
EntriesOf(progress, u) ==
  IF u \in DOMAIN progress THEN [present |-> TRUE, entries |-> progress[u]]
  ELSE [present |-> FALSE, entries |-> << >>]

\* A step of a request of user u that may write to the store.
WritesFor(u) ==
  \/ OnStart(u)
  \/ \E t \in TokenInputs : OnOpenFile(u, t)
  \/ OnRandom(u)
  \/ OnStats(u)
  \/ OnStatsCallback(u)
  \/ \E i \in 1..MaxEvents : ClearStep(i) /\ inflight[i].chat = u

\* C18: progress is monotone and the users are isolated.  In every step,
\* whether of a request, of the watcher or a change of the tree, each user
\* keeps a map once there is one, each map keeps its entries, a studied
\* document stays studied, and what the store holds for a user changes
\* only in a step of a request of that very user.
C18_ProgressMonotone ==
  [][\A u \in Chats :
       /\ u \in DOMAIN user_progress =>
            /\ u \in DOMAIN user_progress'
            /\ DOMAIN user_progress[u] \subseteq DOMAIN user_progress'[u]
       /\ \A f \in Docs : IsStudied(user_progress, u, f) => IsStudied(user_progress', u, f)
       /\ EntriesOf(user_progress', u) # EntriesOf(user_progress, u) => WritesFor(u)]_vars

\* User 1 has a.txt studied although the tree has lost it and the watcher
\* has taken its snapshot since.
C18_Witness ==
  /\ IsStudied(user_progress, 1, RootDoc)
  /\ RootDoc \notin tree
  /\ w_pc = "sleep"
  /\ RootDoc \notin known_files

\* A step of a request handler.
HandlerStep ==
  \/ \E c \in Chats : OnStart(c) \/ OnStop(c)
  \/ \E c \in Chats, t \in TokenInputs : OnOpenDir(c, t) \/ OnOpenFile(c, t)
  \/ \E i \in 1..MaxEvents : ClearStep(i) \/ EditStep(i) \/ SendStep(i) \/ SubStep(i)

\* The watcher is between the scan of a tick and the replacement of the
\* snapshot.
MidTick == w_pc = "send"

\* The watcher waits for a send_message to return.
SendAwaited ==
  /\ fanout # << >>
  /\ fanout[Len(fanout)].tried # << >>
  /\ fanout[Len(fanout)].tried[Len(fanout[Len(fanout)].tried)]
       \in SeqToSet(fanout[Len(fanout)].chats)

\* C19 as the specification states it: the watcher is suspended only in
\* its sleep, so that no step of a request handler falls between the scan
\* of a tick and the replacement of the snapshot.
C19_SuspendsOnlyAtSleep == [][HandlerStep => ~MidTick]_vars

\* C19 as the code has it: the watcher is suspended in its sleep and in
\* each send of a notification.  It is between scan and replacement only
\* while a send is awaited, and only then can a step of a request handler
\* fall in between; a tick that finds nothing new or nobody subscribed
\* runs from the scan to the sleep in one step, the snapshot replaced when
\* there was something new.
C19_SuspendsAtSleepOrSend ==
  /\ [](MidTick => SendAwaited)
  /\ [][HandlerStep => w_pc \in {"sleep", "dead"} \/ SendAwaited]_vars
  /\ [][WatcherTick /\ ~tick_failed'
          /\ (subscribers = {} \/ ScanAllTxt(tree) \ known_files = {})
          => /\ w_pc' = "sleep"
             /\ (ScanAllTxt(tree) \ known_files # {} => known_files' = ScanAllTxt(tree))]_vars

\* The watcher waits for a send to a chat that has unsubscribed since the
\* tick listed the subscribers.
C19_Witness ==
  /\ MidTick
  /\ SendAwaited
  /\ \E k \in DOMAIN fanout[Len(fanout)].chats :
       fanout[Len(fanout)].chats[k] \notin subscribers

\* C20: every entry of a search result has at least one snippet and at
\* most three, and a document none of whose lines contains the query has
\* no entry, also when its path contains the query.
C20_OneToThreeSnippets ==
  probe.op = "search" =>
    /\ \A k \in DOMAIN probe.res :
         /\ Len(probe.res[k].contexts) >= 1
         /\ Len(probe.res[k].contexts) <= 3
    /\ DocMatches(SplitLines(Lower(probe.text)), Lower(probe.query)) = {}
         => probe.res = << >>

\* The document a.txt with the lines "x" and "ab" was searched for "a.",
\* which its path contains and its lines do not, and has no entry.
C20_Witness ==
  /\ probe.op = "search"
  /\ probe.query = <<97, 46>>
  /\ probe.text = <<120, 10, 97, 98>>
  /\ Contains(probe.query, JoinSlash(RootDoc))
  /\ probe.res = << >>

\* The places of a segment where pat begins.
Occurrences(seg, pat) ==
  {i \in 1..(Len(seg) - Len(pat) + 1) : SubSeq(seg, i, i + Len(pat) - 1) = pat}

RECURSIVE ClosedBlocks(_, _, _)
\* How many code blocks of a text are closed.
ClosedBlocks(lines, i, in_code) ==
  IF i > Len(lines) THEN 0
  ELSE IF StartsWith(Strip(RStrip(lines[i], {13})), Fence)
  THEN (IF in_code THEN 1 ELSE 0) + ClosedBlocks(lines, i + 1, ~in_code)
  ELSE ClosedBlocks(lines, i + 1, in_code)

RECURSIVE Sum(_, _)
Sum(f, i) == IF i > Len(f) THEN 0 ELSE f[i] + Sum(f, i + 1)

\* C21 as the specification states it: a segment that holds a code block
\* holds nothing else.
C21_CodeBlockAlone ==
  probe.op = "render_txt_to_html" =>
    \A i \in 1..Len(probe.res) :
      Occurrences(probe.res[i], PreOpen) # {} => IsSingleCodeBlock(probe.res[i])

\* C21 as the code has it: every closed code block of the text is in the
\* output once, as lines of its own: it begins a segment or follows a
\* newline, and it ends a segment or is followed by a newline.  The packing
\* may put it in one segment with other text or other code blocks, and
\* does so only when the segment stays within ChunkCap.
C21_CodeBlockOwnLines ==
  probe.op = "render_txt_to_html" =>
    /\ Sum([i \in 1..Len(probe.res) |-> Cardinality(Occurrences(probe.res[i], PreOpen))], 1)
         = ClosedBlocks(SplitLines(probe.text), 1, FALSE)
    /\ \A i \in 1..Len(probe.res) :
         LET seg == probe.res[i]
         IN /\ \A k \in Occurrences(seg, PreOpen) : k = 1 \/ seg[k - 1] = 10
            /\ \A k \in Occurrences(seg, PreClose) :
                 k + Len(PreClose) - 1 = Len(seg) \/ seg[k + Len(PreClose)] = 10
            /\ Occurrences(seg, PreOpen) # {} /\ ~IsSingleCodeBlock(seg)
                 => Len(seg) <= ChunkCap

\* The text "x", fence, fence was rendered: one segment holds the line and
\* the code block.
C21_Witness ==
  /\ probe.op = "render_txt_to_html"
  /\ probe.text = <<120, 10>> \o Fence \o <<10>> \o Fence
  /\ probe.res = <<(<<120, 10>> \o PreOpen \o PreClose)>>

\* The tracking list of a conversation, empty when it has none.
TrackingOf(messages, c) == IF c \in DOMAIN messages THEN messages[c] ELSE << >>

\* C22: when clear_user_messages completes for a conversation its tracking
\* list is empty and the lists of the other conversations are as they
\* were.  It completes with the step of its last delete, whether that
\* delete returned or raised, or, with nothing to delete, within the step
\* of the request that called it.
C22_ClearedToEmpty ==
  /\ [][\A i \in 1..MaxEvents :
          ClearStep(i) /\ inflight[i].k >= Len(inflight[i].ids)
            => /\ TrackingOf(user_content_messages', inflight[i].chat) = << >>
               /\ \A c \in Chats \ {inflight[i].chat} :
                    TrackingOf(user_content_messages', c)
                      = TrackingOf(user_content_messages, c)]_vars
  /\ [][Len(inflight') = Len(inflight) + 1 /\ inflight'[Len(inflight')].pc = "edit"
          => /\ TrackingOf(user_content_messages', inflight'[Len(inflight')].chat) = << >>
             /\ user_content_messages' = user_content_messages]_vars

\* A request of chat 1 is through its deletes: the list of chat 1 is empty
\* while chat 2 still has its content listed.
C22_Witness ==
  /\ 1 \in DOMAIN user_content_messages
  /\ user_content_messages[1] = << >>
  /\ TrackingOf(user_content_messages, 2) # << >>
  /\ mid >= 2
  /\ \E i \in DOMAIN inflight :
       inflight[i].chat = 1 /\ inflight[i].pc = "edit" /\ inflight[i].sent_ids = << >>

\* The chat for which the watcher has called send_message last.
SentTo == fanout[Len(fanout)].tried[Len(fanout[Len(fanout)].tried)]

\* C23: whenever the watcher calls send_message for a chat, the chat is a
\* subscriber at that moment, so that a chat that has unsubscribed, also
\* in the middle of a fan-out, is sent nothing.
C23_SendsToSubscribersOnly ==
  [][fanout' # fanout /\ w_pc' = "send" => SentTo' \in subscribers']_vars

\* C24: as long as no send has raised and no delete of a displayed message
\* has raised, a chat with no request in progress displays content
\* messages of the document it opened last only, and they are exactly the
\* ids of its tracking list, however its requests were interleaved.
C24_DisplayedIsTracked ==
  screen.known =>
    \A c \in Chats :
      (\A i \in DOMAIN inflight : inflight[i].chat # c) =>
        /\ {m[1] : m \in screen.msgs[c]}
             = SeqToSet(TrackingOf(user_content_messages, c))
        /\ \A m \in screen.msgs[c] : m[2] = screen.latest[c]

\* The token names a document whose read fails now.
ReadFails(t) ==
  /\ Resolve(Reg, t).err = "none"
  /\ Resolve(Reg, t).ref[1] = "file"
  /\ read_text_file(Resolve(Reg, t).ref[2], tree, links).err # "none"

\* C25: an open request whose read of the document fails leaves the
\* progress store as it was.
C25_FailedOpenMarksNothing ==
  [][\A c \in Chats, t \in TokenInputs :
       OnOpenFile(c, t) /\ ReadFails(t) => UNCHANGED user_progress]_vars

\* The cells of the progress bar of line 356 (523): int(percentage / 10)
\* green cells, and white cells up to 10 if that is below 10.
BarCells(studied_files, total_files) ==
  LET green == (studied_files * 10) \div total_files
  IN green + (IF green < 10 THEN 10 - green ELSE 0)

\* C26: whenever the statistics report counts, the studied count is at
\* most the total, the percentage is between 0 and 100, and the progress
\* bar has 10 cells.
C26_StudiedWithinTotal ==
  shown.op = "stats" /\ shown.report.answer = "stats" =>
    /\ shown.report.studied_files <= shown.report.total_files
    /\ shown.report.percentage[1] >= 0
    /\ shown.report.percentage[1] <= 100 * shown.report.percentage[2]
    /\ BarCells(shown.report.studied_files, shown.report.total_files) = 10

\* C27: every reference the registry holds has a relative path whose
\* location, ".." segments and symbolic links followed, is the content
\* root or below it.
C27_RegisteredInsideRoot ==
  \A t \in DOMAIN id_to_path : InsideRoot(Canonical(id_to_path[t][2]))

====
